---- MODULE Spec2Model ----
(***************************************************************************)
(* ImprovedWolframLanguageClient (wolfram_client.py): one client object,   *)
(* several asyncio tasks calling its coroutines on one event loop, and the *)
(* client's ThreadPoolExecutor whose worker thread makes the kernel calls. *)
(*                                                                         *)
(* A coroutine runs without interruption between two awaits that suspend:  *)
(* cur names the task the event loop is running (0: the loop is idle).     *)
(* The worker thread runs in parallel with the loop.                       *)
(***************************************************************************)
EXTENDS Integers, Sequences, FiniteSets, TLC

\* ---------------------------------------------------------------- bounds
\* total number of client calls started in one behaviour
MaxCalls == 3
\* only the calls numbered up to this are cancelled by their callers
MaxCancelled == 1

Tasks == {1, 2}
Codes == {"c1", "c2"}
Ops == {"execute", "is_available", "get_kernel_info", "get_session_info", "close"}

\* ------------------------------------------------------ program constants
\* ThreadPoolExecutor(max_workers=1, ...)
ExecutorMaxWorkersTwo == 1 + 1
ExecutorMaxWorkers == 1

\* self.max_retries = 3
MaxRetries == 3

\* every call constructs at most MaxRetries handles
MaxHandles == MaxRetries * MaxCalls

None == "None"

\* what the kernel answers to evaluate(wlexpr(code))
KernelValue(c) == IF c = "c1" THEN "r1" ELSE "r2"
\* the failed/aborted symbol a kernel can return instead of raising
FailedSentinel == "$Failed"

\* str(e) of the exceptions that occur
Str(e) ==
  CASE e = "WolframKernelException" -> "kernel error"
    [] e = "AttributeError" -> "'NoneType' object has no attribute 'evaluate'"
    [] e = "RuntimeError" -> "cannot schedule new futures after shutdown"
    [] OTHER -> "error"

VARIABLES
  session,       \* self._session: 0 is None, else the id of the handle
  initialized,   \* self._session_initialized
  lastActivity,  \* self._last_activity: number of the call that stamped it
  lock,          \* self._session_lock: 0 free, else the task that holds it
  waiters,       \* tasks suspended in self._session_lock.acquire(), FIFO
  queue,         \* work items of self._executor not yet started
  running,       \* work items a worker thread is executing
  shutdown,      \* self._executor.shutdown was called
  live,          \* handles constructed on which terminate was not run
  nextId,        \* number of handles constructed so far
  cur,           \* the task the event loop is executing, 0 if none
  calls,         \* number of calls started
  frame,         \* per task: position and locals of its coroutine
  fut,           \* per task: the future it awaits
  ret,           \* per task: what its last call returned
  hungEval,      \* per task: its requested evaluation will never return
  faulted,       \* some kernel call raised or hung, or a constructor raised
  web,           \* the HTTP request handled last and what became of it
  requests,      \* RateLimiter.requests: per client, times of allowed requests
  burst_counts,  \* RateLimiter.burst_counts
  last_reset,    \* RateLimiter.last_reset
  now,           \* time.time()
  verdict,       \* what the last is_allowed call returned, and for whom
  requests_per_minute,  \* RateLimiter.requests_per_minute
  burst_size,    \* RateLimiter.burst_size
  granted        \* per client: times of the requests allowed in the last minute

clientVars == <<session, initialized, lastActivity, lock, waiters, queue,
                running, shutdown, live, nextId, cur, calls, frame, fut, ret,
                hungEval, faulted>>
rlVars == <<requests, burst_counts, last_reset, now, verdict,
            requests_per_minute, burst_size, granted>>
vars == <<clientVars, web, rlVars>>

\* a step of the client touches neither the request layer nor the throttle
Ext == UNCHANGED <<web, rlVars>>

sessVars == <<session, initialized, lastActivity>>
lockVars == <<lock, waiters>>
execVars == <<queue, running, shutdown>>
kernVars == <<live, nextId, faulted>>

NoFut == [st |-> "none", val |-> None, h |-> 0]
Pending == [st |-> "pending", val |-> None, h |-> 0]
NoRet == [tag |-> "none"]

IdleFrame ==
  [pc |-> "idle", op |-> None, code |-> None, attempt |-> 0, depth |-> 0,
   ensRet |-> FALSE, exc |-> None, failures |-> 0, callNo |-> 0,
   cause |-> None, sentinel |-> FALSE, trace |-> <<>>, probed |-> 0,
   warmed |-> 0, slept |-> <<>>]

\* __init__ (lines 20-37)
\* ----------------------------------------------- security.CodeValidator
\* DANGEROUS_FUNCTIONS
DangerousFunctions ==
  {"Run", "RunProcess", "Import", "Export", "Get", "Put", "OpenRead",
   "OpenWrite", "CreateFile", "DeleteFile", "CopyFile", "RenameFile",
   "CreateDirectory", "DeleteDirectory", "SetDirectory", "ResetDirectory",
   "Install", "Uninstall", "URLFetch", "URLRead", "URLSubmit", "SendMail",
   "SystemOpen", "NotebookWrite", "CloudDeploy", "CloudFunction",
   "CloudObject", "RemoteFile", "RemoteRun"}

\* the names of RISKY_PATTERNS of the form Name\[.*\]
RiskyCalls ==
  {"Import", "Export", "Get", "Put", "Run", "URLFetch", "SetDirectory",
   "CreateFile", "DeleteFile"}

\* dangerous_keywords: the context prefixes System, Developer and Internal,
\* each with its trailing backquote (written here as a dot)
RestrictedNamespaces == {"System.", "Developer.", "Internal."}

\* len(code) > 50000
CodeLimit == 50000

\* code_validator = CodeValidator(strict_mode=True)
StrictMode == TRUE

\* re.IGNORECASE on the words a source text is made of here
Lower(w) ==
  CASE w = "Import" -> "import"
    [] w = "Run" -> "run"
    [] OTHER -> w

\* a source text: its words in order, and its length in characters
Source(text, length) == [text |-> text, length |-> length]

\* data.get("code", "")
EmptySource == Source(<<>>, 0)

\* in the place of a source text: there is none
NoSource == Source(<<>>, 0 - 1)

\* the source texts requests carry
Sources ==
  {Source(<<"2", "Plus", "2">>, 5),
   Source(<<"Import", "[", "f", "]">>, 9),
   Source(<<"import", "[", "f", "]">>, 9),
   Source(<<"Run">>, 3),
   Source(<<"System.", "x">>, 8),
   Source(<<"2", "Plus", "2">>, CodeLimit),
   Source(<<"2", "Plus", "2">>, CodeLimit + 1)}

\* func in code / keyword in code
Occurs(w, code) == \E i \in DOMAIN code.text : code.text[i] = w

\* pattern.search(code) for Name\[.*\], ignoring case
CallOccurs(w, code) ==
  \E i, k \in DOMAIN code.text :
    /\ Lower(code.text[i]) = Lower(w)
    /\ i + 1 \in DOMAIN code.text /\ code.text[i + 1] = "["
    /\ k > i + 1 /\ code.text[k] = "]"

\* pattern.search(code) for !/.*
ShellOccurs(code) == Occurs("!/", code)

\* CodeValidator.validate_code: the warnings and the verdict
Warnings(code) ==
  {<<"function", f>> : f \in {g \in DangerousFunctions : StrictMode /\ Occurs(g, code)}}
    \cup {<<"pattern", w>> : w \in {g \in RiskyCalls : CallOccurs(g, code)}}
    \cup (IF ShellOccurs(code) THEN {<<"pattern", "!/">>} ELSE {})
    \cup (IF code.length > CodeLimit THEN {<<"length", "50KB">>} ELSE {})
    \cup {<<"namespace", n>> : n \in {g \in RestrictedNamespaces : Occurs(g, code)}}

validate_code(code) ==
  [is_safe |-> (Warnings(code) = {} \/ ~StrictMode), warnings |-> Warnings(code)]

\* ------------------------------------------------------ HTTP requests
Paths == {"/execute", "/evaluate", "/execute-wolfram", "/health"}
Methods == {"GET", "POST"}

\* request bodies: none, bytes that are not JSON, a JSON array, and JSON
\* objects with a "code" or an "expression" member
Bodies ==
  {[kind |-> "empty", member |-> None, source |-> EmptySource],
   [kind |-> "garbage", member |-> None, source |-> EmptySource],
   [kind |-> "array", member |-> None, source |-> EmptySource]}
    \cup {[kind |-> "object", member |-> m, source |-> s] :
            m \in {"code", "expression"}, s \in Sources}

Requests == [path : Paths, method : Methods, body : Bodies]

NoRequest ==
  [req |-> None, via |-> None, screened |-> NoSource, status |-> 0,
   delivered |-> NoSource, operation |-> None]

\* ------------------------------------------------ security.RateLimiter
Clients == {"a", "b"}

\* rate_limiter = RateLimiter(requests_per_minute=30, burst_size=5)
RequestsPerMinute == 30
BurstSize == 5

\* "older than 1 minute", "every minute": 60 seconds
Window == 60

\* time.time() when the server starts, and how far the clock runs
StartTime == 100
MaxElapsed == 92

\* arguments RateLimiter(requests_per_minute=..., burst_size=...) is given
Configs ==
  {[rpm |-> RequestsPerMinute, burst |-> BurstSize],
   [rpm |-> 2, burst |-> 2], [rpm |-> 3, burst |-> 3]}

NoVerdict == [client |-> None, allowed |-> FALSE, reason |-> None]

\* ------------------------------------------------------------ start
ClientInit ==
  /\ session = 0
  /\ initialized = FALSE
  /\ lastActivity = 0
  /\ lock = 0
  /\ waiters = <<>>
  /\ queue = <<>>
  /\ running = {}
  /\ shutdown = FALSE
  /\ live = {}
  /\ nextId = 0
  /\ cur = 0
  /\ calls = 0
  /\ frame = [t \in Tasks |-> IdleFrame]
  /\ fut = [t \in Tasks |-> NoFut]
  /\ ret = [t \in Tasks |-> NoRet]
  /\ hungEval = [t \in Tasks |-> FALSE]
  /\ faulted = FALSE
  /\ web = NoRequest

\* RateLimiter.__init__ (lines 93-104); defaultdict(float) reads as 0.0
LimiterInit(r, b) ==
  /\ requests_per_minute = r
  /\ burst_size = b
  /\ requests = [c \in Clients |-> <<>>]
  /\ burst_counts = [c \in Clients |-> 0]
  /\ last_reset = [c \in Clients |-> 0]
  /\ now = StartTime
  /\ verdict = NoVerdict
  /\ granted = [c \in Clients |-> <<>>]

\* the server: one client, and the limiter of line 183
Init == ClientInit /\ LimiterInit(RequestsPerMinute, BurstSize)

\* a RateLimiter constructed with any of these arguments
AnyLimiterInit ==
  ClientInit /\ \E cfg \in Configs : LimiterInit(cfg.rpm, cfg.burst)

\* a work item: the function handed to run_in_executor.  h is the handle a
\* bound method was taken from (terminate); the lambdas read self._session
\* when the worker runs them, so their h is filled in when the item starts.
Job(t, kind, h, c) ==
  [task |-> t, kind |-> kind, h |-> h, code |-> c, abandoned |-> FALSE,
   hung |-> FALSE]

\* loop.run_in_executor(self._executor, func) (lines 39-42) on a live executor
Enqueue(t, kind, h, c) == Append(queue, Job(t, kind, h, c))

\* leaving "async with self._session_lock": the first waiter gets the lock
LockAfterReleaseKept == lock
LockAfterRelease == IF waiters = <<>> THEN 0 ELSE Head(waiters)
WaitersAfterRelease == IF waiters = <<>> THEN <<>> ELSE Tail(waiters)

Resolved(t) == fut[t].st \in {"ok", "raised"}

\* ------------------------------------------------------------ outcomes
Outcome(s, r, e, el) ==
  [tag |-> "tuple", success |-> s, result |-> r, error |-> e, elapsed |-> el]

\* line 126
SessionFailedOutcomeMeasured ==
  Outcome(FALSE, None, "Failed to establish Wolfram session", "measured")
SessionFailedOutcome ==
  Outcome(FALSE, None, "Failed to establish Wolfram session", "zero")
\* line 143
SuccessOutcomeWithError(r) == Outcome(TRUE, r, "evaluation failed", "measured")
SuccessOutcome(r) == Outcome(TRUE, r, None, "measured")
\* line 148
TimeoutOutcome ==
  Outcome(FALSE, None, "Execution timed out after T seconds", "measured")
\* lines 150-153: except Exception as e
ExecuteExceptReraise(e) == [tag |-> "raise", exc |-> e]
ExecuteExcept(e) == Outcome(FALSE, None, Str(e), "measured")

\* ---------------------------------------------------------------- calls
EntryPc(o) ==
  CASE o = "get_session_info" -> "info"
    [] o = "close" -> "close_enter"
    [] OTHER -> "ens_enter"

\* a task calls one of the client's coroutines
StartCall(t, o, c) ==
  /\ cur = 0
  /\ frame[t].pc \in {"idle", "done"}
  /\ calls < MaxCalls
  /\ calls' = calls + 1
  /\ cur' = t
  /\ frame' = [frame EXCEPT ![t] =
                 [IdleFrame EXCEPT !.pc = EntryPc(o), !.op = o, !.code = c,
                                   !.callNo = calls + 1]]
  /\ fut' = [fut EXCEPT ![t] = NoFut]
  /\ ret' = [ret EXCEPT ![t] = NoRet]
  /\ hungEval' = [hungEval EXCEPT ![t] = FALSE]
  /\ UNCHANGED <<sessVars, lockVars, execVars, kernVars>>
  /\ Ext

\* ------------------------------------------------------ _ensure_session
\* asyncio.Lock.acquire returns at once when the lock is free and nobody
\* waits for it
LockFreeAlways == TRUE
LockFree == lock = 0 /\ waiters = <<>>

\* line 46: async with self._session_lock (asyncio.Lock is not reentrant)
EnsEnter(t) ==
  /\ cur = t
  /\ frame[t].pc = "ens_enter"
  /\ IF LockFree
     THEN /\ lock' = t
          /\ frame' = [frame EXCEPT ![t].pc = "ens_check"]
          /\ UNCHANGED <<waiters, cur>>
     ELSE /\ waiters' = Append(waiters, t)
          /\ frame' = [frame EXCEPT ![t].pc = "ens_lockwait"]
          /\ cur' = 0
          /\ UNCHANGED lock
  /\ UNCHANGED <<sessVars, execVars, kernVars, calls, fut, ret, hungEval>>
  /\ Ext

\* a task suspended in acquire() is resumed once the lock was handed to it
LockGranted(t) ==
  /\ cur = 0
  /\ frame[t].pc \in {"ens_lockwait", "close_lockwait"}
  /\ lock = t
  /\ \A i \in 1..Len(waiters) : waiters[i] # t
  /\ cur' = t
  /\ frame' = [frame EXCEPT ![t].pc =
                 IF @ = "ens_lockwait" THEN "ens_check" ELSE "close_check"]
  /\ UNCHANGED <<sessVars, lockVars, execVars, kernVars, calls, fut, ret,
                 hungEval>>
  /\ Ext

\* lines 102-106: the health check raised
HealthFailedFrame(f) ==
  [f EXCEPT !.pc = "ens_enter", !.depth = @ + 1, !.failures = @ + 1,
            !.trace = <<>>]

\* line 48: if self._session is None or not self._session_initialized
NeedsCreationAlways == TRUE
NeedsCreation == session = 0 \/ ~initialized

\* line 48, and lines 96-99 when the session is READY
EnsCheck(t) ==
  /\ cur = t
  /\ frame[t].pc = "ens_check"
  /\ IF NeedsCreation
     THEN /\ frame' = [frame EXCEPT ![t].pc = "attempt", ![t].attempt = 0]
          /\ UNCHANGED <<sessVars, execVars, cur, fut>>
     ELSE IF shutdown
     THEN /\ session' = 0
          /\ initialized' = FALSE
          /\ frame' = [frame EXCEPT ![t] = HealthFailedFrame(@)]
          /\ UNCHANGED <<lastActivity, execVars, cur, fut>>
     ELSE /\ queue' = Enqueue(t, "probe", 0, None)
          /\ fut' = [fut EXCEPT ![t] = Pending]
          /\ frame' = [frame EXCEPT ![t].pc = "aw_hprobe",
                                    ![t].trace = Append(@, "probe")]
          /\ cur' = 0
          /\ UNCHANGED <<sessVars, running, shutdown>>
  /\ UNCHANGED <<lockVars, kernVars, calls, ret, hungEval>>
  /\ Ext

\* an exception reaches "except Exception as e" of the creation loop (line 80)
RaisedSwallowed(f, e) == [f EXCEPT !.pc = "ens_ret", !.ensRet = TRUE]
Raised(f, e) ==
  [f EXCEPT !.pc = "handler", !.exc = e, !.failures = @ + 1, !.trace = <<>>,
            !.probed = 0, !.warmed = 0]

\* lines 52-66: one creation attempt, up to the await of the probe.  The
\* constructor runs on the event loop and may raise (ok = FALSE).
Attempt(t, ok) ==
  /\ cur = t
  /\ frame[t].pc = "attempt"
  /\ IF ~ok
     THEN /\ frame' = [frame EXCEPT ![t] = Raised(@, "WolframKernelException")]
          /\ faulted' = TRUE
          /\ UNCHANGED <<sessVars, execVars, live, nextId, cur, fut>>
     ELSE /\ nextId' = nextId + 1
          /\ live' = live \cup {nextId + 1}
          /\ session' = nextId + 1
          /\ UNCHANGED <<initialized, lastActivity, faulted>>
          /\ IF shutdown
             THEN /\ frame' = [frame EXCEPT ![t] = Raised(@, "RuntimeError")]
                  /\ UNCHANGED <<execVars, cur, fut>>
             ELSE /\ queue' = Enqueue(t, "probe", 0, None)
                  /\ fut' = [fut EXCEPT ![t] = Pending]
                  /\ frame' = [frame EXCEPT ![t].pc = "aw_probe",
                                            ![t].trace = @ \o <<"create", "probe">>]
                  /\ cur' = 0
                  /\ UNCHANGED <<running, shutdown>>
  /\ UNCHANGED <<lockVars, calls, ret, hungEval>>
  /\ Ext

\* lines 72-74: the warm-up evaluates $Version, not the probe again
WarmupKindProbe == "probe"
WarmupKind == "warmup"

\* lines 64-74: the probe of the new handle returned or raised
ProbeDone(t) ==
  /\ cur = 0
  /\ frame[t].pc = "aw_probe"
  /\ Resolved(t)
  /\ IF fut[t].st = "raised"
     THEN /\ frame' = [frame EXCEPT ![t] = Raised(@, fut[t].val)]
          /\ fut' = [fut EXCEPT ![t] = NoFut]
          /\ cur' = t
          /\ UNCHANGED execVars
     ELSE IF shutdown
     THEN /\ frame' = [frame EXCEPT ![t] = Raised(@, "RuntimeError")]
          /\ fut' = [fut EXCEPT ![t] = NoFut]
          /\ cur' = t
          /\ UNCHANGED execVars
     ELSE /\ queue' = Enqueue(t, WarmupKind, 0, None)
          /\ fut' = [fut EXCEPT ![t] = Pending]
          /\ frame' = [frame EXCEPT ![t].pc = "aw_warm",
                                    ![t].probed = fut[t].h,
                                    ![t].trace = Append(@, WarmupKind)]
          /\ cur' = 0
          /\ UNCHANGED <<running, shutdown>>
  /\ UNCHANGED <<sessVars, lockVars, kernVars, calls, ret, hungEval>>
  /\ Ext

\* lines 72-78: the warm-up returned or raised
WarmDone(t) ==
  /\ cur = 0
  /\ frame[t].pc = "aw_warm"
  /\ Resolved(t)
  /\ cur' = t
  /\ fut' = [fut EXCEPT ![t] = NoFut]
  /\ IF fut[t].st = "raised"
     THEN /\ frame' = [frame EXCEPT ![t] = Raised(@, fut[t].val)]
          /\ UNCHANGED sessVars
     ELSE /\ initialized' = TRUE
          /\ lastActivity' = frame[t].callNo
          /\ frame' = [frame EXCEPT ![t].pc = "ens_ret", ![t].ensRet = TRUE,
                                    ![t].warmed = fut[t].h]
          /\ UNCHANGED session
  /\ UNCHANGED <<lockVars, execVars, kernVars, calls, ret, hungEval>>
  /\ Ext

\* line 87: self._session = None
SessionKept(s) == s
SessionAfterCleanup(s) == 0

\* lines 80-87: the handler terminates the half-created handle
Handler(t) ==
  /\ cur = t
  /\ frame[t].pc = "handler"
  /\ IF session = 0
     THEN /\ frame' = [frame EXCEPT ![t].pc = "after_handler"]
          /\ UNCHANGED <<sessVars, execVars, cur, fut>>
     ELSE IF shutdown
     THEN /\ session' = SessionAfterCleanup(session)
          /\ frame' = [frame EXCEPT ![t].pc = "after_handler"]
          /\ UNCHANGED <<initialized, lastActivity, execVars, cur, fut>>
     ELSE /\ queue' = Enqueue(t, "terminate", session, None)
          /\ fut' = [fut EXCEPT ![t] = Pending]
          /\ frame' = [frame EXCEPT ![t].pc = "aw_term",
                                    ![t].trace = Append(@, "terminate")]
          /\ cur' = 0
          /\ UNCHANGED <<sessVars, running, shutdown>>
  /\ UNCHANGED <<lockVars, kernVars, calls, ret, hungEval>>
  /\ Ext

\* lines 83-87: terminate returned or raised (bare except: pass)
TermDone(t) ==
  /\ cur = 0
  /\ frame[t].pc = "aw_term"
  /\ Resolved(t)
  /\ cur' = t
  /\ fut' = [fut EXCEPT ![t] = NoFut]
  /\ session' = SessionAfterCleanup(session)
  /\ frame' = [frame EXCEPT ![t].pc = "after_handler"]
  /\ UNCHANGED <<initialized, lastActivity, lockVars, execVars, kernVars,
                 calls, ret, hungEval>>
  /\ Ext

\* line 89: attempt < self.max_retries - 1
AttemptsRemainNever(a) == FALSE
AttemptsRemain(a) == a < MaxRetries - 1

\* line 90: asyncio.sleep(2 ** attempt), attempt counted from 0
BackoffFromTwo(a) == 2 ^ (a + 1)
Backoff(a) == 2 ^ a

\* lines 89-93: back off and retry, or give up
AfterHandler(t) ==
  /\ cur = t
  /\ frame[t].pc = "after_handler"
  /\ IF AttemptsRemain(frame[t].attempt)
     THEN /\ frame' = [frame EXCEPT ![t].pc = "backoff",
                                    ![t].slept = Append(@, Backoff(frame[t].attempt))]
          /\ cur' = 0
     ELSE /\ frame' = [frame EXCEPT ![t].pc = "ens_ret", ![t].ensRet = FALSE]
          /\ UNCHANGED cur
  /\ UNCHANGED <<sessVars, lockVars, execVars, kernVars, calls, fut, ret,
                 hungEval>>
  /\ Ext

\* line 90 / line 51: asyncio.sleep is over, next attempt
BackoffWake(t) ==
  /\ cur = 0
  /\ frame[t].pc = "backoff"
  /\ cur' = t
  /\ frame' = [frame EXCEPT ![t].pc = "attempt", ![t].attempt = @ + 1]
  /\ UNCHANGED <<sessVars, lockVars, execVars, kernVars, calls, fut, ret,
                 hungEval>>
  /\ Ext

\* lines 96-106: the health check of the READY session returned or raised
HealthDone(t) ==
  /\ cur = 0
  /\ frame[t].pc = "aw_hprobe"
  /\ Resolved(t)
  /\ cur' = t
  /\ fut' = [fut EXCEPT ![t] = NoFut]
  /\ IF fut[t].st = "raised"
     THEN /\ session' = 0
          /\ initialized' = FALSE
          /\ frame' = [frame EXCEPT ![t] = HealthFailedFrame(@)]
          /\ UNCHANGED lastActivity
     ELSE /\ lastActivity' = frame[t].callNo
          /\ frame' = [frame EXCEPT ![t].pc = "ens_ret", ![t].ensRet = TRUE,
                                    ![t].probed = fut[t].h]
          /\ UNCHANGED <<session, initialized>>
  /\ UNCHANGED <<lockVars, execVars, kernVars, calls, ret, hungEval>>
  /\ Ext

\* what is_available returns (lines 163-166)
AvailableResult(ok) ==
  [tag |-> "avail", available |-> ok,
   error |-> IF ok THEN None ELSE "Failed to create Wolfram session"]

\* what get_kernel_info returns (lines 182, 191-198)
KernelInfoNone == [tag |-> "kinfo_none"]
KernelInfo == [tag |-> "kinfo", session_active |-> TRUE]

\* _ensure_session leaves "async with" and returns to its caller:
\* line 106 for a recursive call, else line 125, 163 or 181.  The caller
\* runs on to its next await: lines 125-138, 163-166 or 181-186.
EnsReturn(t) ==
  /\ cur = t
  /\ frame[t].pc = "ens_ret"
  /\ lock' = LockAfterRelease
  /\ waiters' = WaitersAfterRelease
  /\ IF frame[t].depth > 0
     THEN /\ frame' = [frame EXCEPT ![t].depth = @ - 1]
          /\ UNCHANGED <<execVars, cur, fut, ret>>
     ELSE IF frame[t].op = "is_available"
     THEN /\ ret' = [ret EXCEPT ![t] = AvailableResult(frame[t].ensRet)]
          /\ frame' = [frame EXCEPT ![t].pc = "done", ![t].probed = 0,
                                    ![t].warmed = 0]
          /\ cur' = 0
          /\ UNCHANGED <<execVars, fut>>
     ELSE IF ~frame[t].ensRet
     THEN /\ ret' = [ret EXCEPT ![t] =
                       IF frame[t].op = "execute" THEN SessionFailedOutcome
                                                  ELSE KernelInfoNone]
          /\ frame' = [frame EXCEPT ![t].pc = "done", ![t].probed = 0,
                                    ![t].warmed = 0]
          /\ cur' = 0
          /\ UNCHANGED <<execVars, fut>>
     ELSE IF frame[t].op = "execute"
     THEN /\ frame' = [frame EXCEPT ![t].pc = "eval_sched", ![t].warmed = 0]
          /\ cur' = 0
          /\ UNCHANGED <<execVars, fut, ret>>
     ELSE IF shutdown
     THEN /\ ret' = [ret EXCEPT ![t] = KernelInfoNone]
          /\ frame' = [frame EXCEPT ![t].pc = "done", ![t].probed = 0,
                                    ![t].warmed = 0, ![t].cause = "RuntimeError"]
          /\ cur' = 0
          /\ UNCHANGED <<execVars, fut>>
     ELSE /\ queue' = Enqueue(t, "version", 0, None)
          /\ fut' = [fut EXCEPT ![t] = Pending]
          /\ frame' = [frame EXCEPT ![t].pc = "aw_kver",
                                    ![t].trace = Append(@, "version"),
                                    ![t].probed = 0, ![t].warmed = 0]
          /\ cur' = 0
          /\ UNCHANGED <<running, shutdown, ret>>
  /\ UNCHANGED <<sessVars, kernVars, calls, hungEval>>
  /\ Ext

\* -------------------------------------------------- execute_wolfram_code
\* lines 135-138: asyncio.wait_for(self._run_in_executor(execute), ...).
\* Before Python 3.12 wait_for wraps the coroutine in a new task, whose first
\* step (the submission to the executor) the event loop runs after the
\* callbacks that were already ready, e.g. the wake-up of a lock waiter;
\* from 3.12 on the submission follows at once, which is the behaviour
\* where this step is taken first.
EvalSubmit(t) ==
  /\ cur = 0
  /\ frame[t].pc = "eval_sched"
  /\ IF shutdown
     THEN /\ ret' = [ret EXCEPT ![t] = ExecuteExcept("RuntimeError")]
          /\ frame' = [frame EXCEPT ![t].pc = "done", ![t].probed = 0,
                                    ![t].cause = "RuntimeError"]
          /\ UNCHANGED <<execVars, fut>>
     ELSE /\ queue' = Enqueue(t, "eval", 0, frame[t].code)
          /\ fut' = [fut EXCEPT ![t] = Pending]
          /\ frame' = [frame EXCEPT ![t].pc = "aw_eval",
                                    ![t].trace = Append(@, "eval")]
          /\ UNCHANGED <<running, shutdown, ret>>
  /\ UNCHANGED <<sessVars, lockVars, kernVars, cur, calls, hungEval>>
  /\ Ext

\* lines 135-143 and 150-153: the evaluation returned or raised in time
EvalDone(t) ==
  /\ cur = 0
  /\ frame[t].pc = "aw_eval"
  /\ Resolved(t)
  /\ ret' = [ret EXCEPT ![t] =
               IF fut[t].st = "ok" THEN SuccessOutcome(fut[t].val)
                                   ELSE ExecuteExcept(fut[t].val)]
  /\ frame' = [frame EXCEPT ![t].pc = "done", ![t].probed = 0,
                            ![t].cause = IF fut[t].st = "ok" THEN None ELSE fut[t].val,
                            ![t].sentinel = (fut[t].st = "ok" /\ fut[t].val = FailedSentinel)]
  /\ fut' = [fut EXCEPT ![t] = NoFut]
  /\ UNCHANGED <<sessVars, lockVars, execVars, kernVars, cur, calls, hungEval>>
  /\ Ext

\* the work item of task t that t still waits for
Awaited(j, t) == j.task = t /\ ~j.abandoned

RECURSIVE Without(_, _)
Without(q, t) ==
  IF q = <<>> THEN <<>>
  ELSE IF Awaited(Head(q), t) THEN Without(Tail(q), t)
  ELSE <<Head(q)>> \o Without(Tail(q), t)

\* asyncio.wait_for(..., timeout=timeout) arms a timer for the evaluation
TimerArmed(t) == frame[t].pc = "aw_eval" /\ fut[t].st = "pending"

\* wait_for cancels only the caller's future: the kernel call a worker is
\* executing for t goes on, marked as abandoned by its caller
RunningAfterTimeoutKilled(t) == {j \in running : ~Awaited(j, t)}
RunningAfterTimeout(t) ==
  {IF Awaited(j, t) THEN [j EXCEPT !.abandoned = TRUE] ELSE j : j \in running}

\* lines 145-148: the timer fires first.  wait_for cancels the future: a
\* work item still queued is dropped, a running one is left running.
Timeout(t) ==
  /\ cur = 0
  /\ TimerArmed(t)
  /\ queue' = Without(queue, t)
  /\ running' = RunningAfterTimeout(t)
  /\ ret' = [ret EXCEPT ![t] = TimeoutOutcome]
  /\ frame' = [frame EXCEPT ![t].pc = "done", ![t].probed = 0]
  /\ fut' = [fut EXCEPT ![t] = NoFut]
  /\ UNCHANGED <<sessVars, lockVars, shutdown, kernVars, cur, calls, hungEval>>
  /\ Ext

\* ------------------------------------------------------ get_kernel_info
\* lines 184-189: $Version returned or raised
KVerDone(t) ==
  /\ cur = 0
  /\ frame[t].pc = "aw_kver"
  /\ Resolved(t)
  /\ IF fut[t].st = "raised" \/ shutdown
     THEN /\ ret' = [ret EXCEPT ![t] = KernelInfoNone]
          /\ frame' = [frame EXCEPT ![t].pc = "done"]
          /\ fut' = [fut EXCEPT ![t] = NoFut]
          /\ UNCHANGED execVars
     ELSE /\ queue' = Enqueue(t, "sysid", 0, None)
          /\ fut' = [fut EXCEPT ![t] = Pending]
          /\ frame' = [frame EXCEPT ![t].pc = "aw_ksys",
                                    ![t].trace = Append(@, "sysid")]
          /\ UNCHANGED <<running, shutdown, ret>>
  /\ UNCHANGED <<sessVars, lockVars, kernVars, cur, calls, hungEval>>
  /\ Ext

\* lines 187-198: $SystemID returned or raised
KSysDone(t) ==
  /\ cur = 0
  /\ frame[t].pc = "aw_ksys"
  /\ Resolved(t)
  /\ ret' = [ret EXCEPT ![t] =
               IF fut[t].st = "ok" THEN KernelInfo ELSE KernelInfoNone]
  /\ frame' = [frame EXCEPT ![t].pc = "done"]
  /\ fut' = [fut EXCEPT ![t] = NoFut]
  /\ UNCHANGED <<sessVars, lockVars, execVars, kernVars, cur, calls, hungEval>>
  /\ Ext

\* ----------------------------------------------------- get_session_info
\* lines 202-207
SessionInfoDictNoFlag ==
  [tag |-> "sinfo",
   session_active |-> (session # 0),
   last_activity |-> lastActivity,
   has_age |-> initialized,
   version |-> None]
SessionInfoDict ==
  [tag |-> "sinfo",
   session_active |-> (session # 0 /\ initialized),
   last_activity |-> lastActivity,
   has_age |-> initialized,
   version |-> None]

\* lines 202-213
SessionInfo(t) ==
  /\ cur = t
  /\ frame[t].pc = "info"
  /\ IF session # 0 /\ initialized /\ ~shutdown
     THEN /\ queue' = Enqueue(t, "version", 0, None)
          /\ fut' = [fut EXCEPT ![t] = Pending]
          /\ ret' = [ret EXCEPT ![t] = SessionInfoDict]
          /\ frame' = [frame EXCEPT ![t].pc = "aw_iver",
                                    ![t].trace = Append(@, "version")]
          /\ UNCHANGED <<running, shutdown>>
     ELSE /\ ret' = [ret EXCEPT ![t] =
                       IF session # 0 /\ initialized
                       THEN [SessionInfoDict EXCEPT !.version = "version_error"]
                       ELSE SessionInfoDict]
          /\ frame' = [frame EXCEPT ![t].pc = "done"]
          /\ UNCHANGED <<execVars, fut>>
  /\ cur' = 0
  /\ UNCHANGED <<sessVars, lockVars, kernVars, calls, hungEval>>
  /\ Ext

\* lines 211-218
InfoVerDone(t) ==
  /\ cur = 0
  /\ frame[t].pc = "aw_iver"
  /\ Resolved(t)
  /\ ret' = [ret EXCEPT ![t].version =
               IF fut[t].st = "ok" THEN fut[t].val ELSE "version_error"]
  /\ frame' = [frame EXCEPT ![t].pc = "done"]
  /\ fut' = [fut EXCEPT ![t] = NoFut]
  /\ UNCHANGED <<sessVars, lockVars, execVars, kernVars, cur, calls, hungEval>>
  /\ Ext

\* ---------------------------------------------------------------- close
\* line 222
CloseEnter(t) ==
  /\ cur = t
  /\ frame[t].pc = "close_enter"
  /\ IF LockFree
     THEN /\ lock' = t
          /\ frame' = [frame EXCEPT ![t].pc = "close_check"]
          /\ UNCHANGED <<waiters, cur>>
     ELSE /\ waiters' = Append(waiters, t)
          /\ frame' = [frame EXCEPT ![t].pc = "close_lockwait"]
          /\ cur' = 0
          /\ UNCHANGED lock
  /\ UNCHANGED <<sessVars, execVars, kernVars, calls, fut, ret, hungEval>>
  /\ Ext

\* line 230, in the finally block: self._session = None
SessionAfterCloseKept == session
SessionAfterClose == 0

\* lines 223-231
CloseCheck(t) ==
  /\ cur = t
  /\ frame[t].pc = "close_check"
  /\ IF session = 0
     THEN /\ frame' = [frame EXCEPT ![t].pc = "close_exit"]
          /\ UNCHANGED <<sessVars, execVars, cur, fut>>
     ELSE IF shutdown
     THEN /\ session' = SessionAfterClose
          /\ initialized' = FALSE
          /\ frame' = [frame EXCEPT ![t].pc = "close_exit",
                                    ![t].exc = "RuntimeError"]
          /\ UNCHANGED <<lastActivity, execVars, cur, fut>>
     ELSE /\ queue' = Enqueue(t, "terminate", session, None)
          /\ fut' = [fut EXCEPT ![t] = Pending]
          /\ frame' = [frame EXCEPT ![t].pc = "aw_cterm",
                                    ![t].trace = Append(@, "terminate")]
          /\ cur' = 0
          /\ UNCHANGED <<sessVars, running, shutdown>>
  /\ UNCHANGED <<lockVars, kernVars, calls, ret, hungEval>>
  /\ Ext

\* lines 225-231: terminate returned or raised; finally clears the session
CloseTermDone(t) ==
  /\ cur = 0
  /\ frame[t].pc = "aw_cterm"
  /\ Resolved(t)
  /\ cur' = t
  /\ fut' = [fut EXCEPT ![t] = NoFut]
  /\ session' = SessionAfterClose
  /\ initialized' = FALSE
  /\ frame' = [frame EXCEPT ![t].pc = "close_exit",
                            ![t].exc = IF fut[t].st = "raised" THEN fut[t].val
                                       ELSE None]
  /\ UNCHANGED <<lastActivity, lockVars, execVars, kernVars, calls, ret,
                 hungEval>>
  /\ Ext

\* line 234: self._executor.shutdown(wait=True) closes the executor for good
ExecutorLeftOpen == FALSE
ExecutorAfterShutdown == TRUE

\* lines 222 (exit) and 234: the lock is released and shutdown(wait=True)
\* starts; it blocks the event loop thread, so cur stays t
CloseExit(t) ==
  /\ cur = t
  /\ frame[t].pc = "close_exit"
  /\ lock' = LockAfterRelease
  /\ waiters' = WaitersAfterRelease
  /\ shutdown' = ExecutorAfterShutdown
  /\ frame' = [frame EXCEPT ![t].pc = "close_shut"]
  /\ UNCHANGED <<sessVars, queue, running, kernVars, cur, calls, fut, ret,
                 hungEval>>
  /\ Ext

\* lines 234-235: shutdown(wait=True) returns when the worker has drained
CloseShutDone(t) ==
  /\ cur = t
  /\ frame[t].pc = "close_shut"
  /\ queue = <<>>
  /\ running = {}
  /\ ret' = [ret EXCEPT ![t] = [tag |-> "closed"]]
  /\ frame' = [frame EXCEPT ![t].pc = "done"]
  /\ cur' = 0
  /\ UNCHANGED <<sessVars, lockVars, execVars, kernVars, calls, fut, hungEval>>
  /\ Ext

\* ------------------------------------------------- the executor's worker
\* a free worker thread takes the oldest work item; a lambda reads
\* self._session now
WorkerStart ==
  /\ queue # <<>>
  /\ Cardinality(running) < ExecutorMaxWorkers
  /\ running' = running \cup
       {[Head(queue) EXCEPT !.h = IF Head(queue).kind = "terminate" THEN @ ELSE session]}
  /\ queue' = Tail(queue)
  /\ UNCHANGED <<sessVars, lockVars, shutdown, kernVars, cur, calls, frame,
                 fut, ret, hungEval>>
  /\ Ext

\* the ways a kernel call can end: a value, the failure symbol, an exception.
\* None.evaluate raises AttributeError; what evaluate does on a handle that
\* was terminated is the binding's business, so any of its answers is allowed
KernelEnds(j) ==
  IF j.kind = "terminate" THEN {"ok", "raise"}
  ELSE IF j.h = 0 THEN {"raise"}
  ELSE IF j.kind = "eval" THEN {"ok", "sentinel", "raise"}
  ELSE {"ok", "raise"}

KernelResult(j, end) ==
  CASE end = "raise" ->
         [st |-> "raised",
          val |-> IF j.kind # "terminate" /\ j.h = 0 THEN "AttributeError"
                  ELSE "WolframKernelException",
          h |-> j.h]
    [] end = "sentinel" -> [st |-> "ok", val |-> FailedSentinel, h |-> j.h]
    [] OTHER ->
         [st |-> "ok",
          val |-> IF j.kind = "eval" THEN KernelValue(j.code) ELSE j.kind,
          h |-> j.h]

\* the kernel call of a running work item returns or raises; the result
\* goes to the future unless the caller gave up waiting
WorkerFinish(j, end) ==
  /\ j \in running
  /\ ~j.hung
  /\ end \in KernelEnds(j)
  /\ running' = running \ {j}
  /\ live' = IF j.kind = "terminate" THEN live \ {j.h} ELSE live
  /\ faulted' = (faulted \/ end = "raise")
  /\ fut' = IF j.abandoned THEN fut
            ELSE [fut EXCEPT ![j.task] = KernelResult(j, end)]
  /\ UNCHANGED <<sessVars, lockVars, queue, shutdown, nextId, cur, calls,
                 frame, ret, hungEval>>
  /\ Ext

\* the kernel never answers this evaluate call
WorkerHang(j) ==
  /\ j \in running
  /\ ~j.hung
  /\ j.kind # "terminate"
  /\ running' = (running \ {j}) \cup {[j EXCEPT !.hung = TRUE]}
  /\ hungEval' = IF j.kind = "eval" /\ ~j.abandoned
                 THEN [hungEval EXCEPT ![j.task] = TRUE] ELSE hungEval
  /\ faulted' = TRUE
  /\ UNCHANGED <<sessVars, lockVars, queue, shutdown, live, nextId, cur,
                 calls, frame, fut, ret>>
  /\ Ext

\* ---------------------------------------------------------- the system
TaskStep(t) ==
  \/ EnsEnter(t) \/ LockGranted(t) \/ EnsCheck(t)
  \/ \E ok \in BOOLEAN : Attempt(t, ok)
  \/ ProbeDone(t) \/ WarmDone(t) \/ Handler(t) \/ TermDone(t)
  \/ AfterHandler(t) \/ BackoffWake(t) \/ HealthDone(t) \/ EnsReturn(t)
  \/ EvalSubmit(t) \/ EvalDone(t)
  \/ KVerDone(t) \/ KSysDone(t) \/ SessionInfo(t) \/ InfoVerDone(t)
  \/ CloseEnter(t) \/ CloseCheck(t) \/ CloseTermDone(t) \/ CloseExit(t)
  \/ CloseShutDone(t)

WorkerStep ==
  \/ WorkerStart
  \/ \E j \in running : \E end \in {"ok", "sentinel", "raise"} : WorkerFinish(j, end)

Next ==
  \/ \E t \in Tasks : \E o \in Ops :
       \E c \in (IF o = "execute" THEN Codes ELSE {None}) : StartCall(t, o, c)
  \/ \E t \in Tasks : TaskStep(t)
  \/ \E t \in Tasks : Timeout(t)
  \/ WorkerStep
  \/ \E j \in running : WorkerHang(j)

Spec == Init /\ [][Next]_vars

\* the event loop runs every ready callback and fired timer; the worker
\* thread runs; a kernel call that hangs (WorkerHang) is never forced to end
FairSpec ==
  /\ Spec
  /\ \A t \in Tasks : WF_vars(TaskStep(t))
  /\ \A t \in Tasks : WF_vars(Timeout(t))
  /\ WF_vars(WorkerStep)

\* --------------------------------------------------------- cancellation
\* the awaits of the creation path of _ensure_session (lines 64, 72, 90)
SuspendedInCreation(t) == frame[t].pc \in {"aw_probe", "aw_warm", "backoff"}

\* what a cancelled call leaves in its task
CancelledRet == [tag |-> "cancelled"]

\* The task of a call suspended at one of these awaits is cancelled.
\* CancelledError is raised at the await; it is not an Exception, so the
\* handler of lines 80-87 does not run: nothing is terminated and
\* self._session keeps what line 57/60 assigned.  "async with" releases the
\* lock (line 46), the except clause of execute_wolfram_code (line 150) does
\* not apply either, and the call ends.  The cancelled future drops a work
\* item still queued and abandons a running one.
Cancel(t) ==
  /\ cur = 0
  /\ SuspendedInCreation(t)
  /\ frame[t].callNo <= MaxCancelled
  /\ queue' = Without(queue, t)
  /\ running' = RunningAfterTimeout(t)
  /\ lock' = LockAfterRelease
  /\ waiters' = WaitersAfterRelease
  /\ ret' = [ret EXCEPT ![t] = CancelledRet]
  /\ frame' = [frame EXCEPT ![t].pc = "done", ![t].trace = <<>>,
                            ![t].probed = 0, ![t].warmed = 0]
  /\ fut' = [fut EXCEPT ![t] = NoFut]
  /\ UNCHANGED <<sessVars, shutdown, kernVars, cur, calls, hungEval>>
  /\ Ext

CancelNext == Next \/ \E t \in Tasks : Cancel(t)

\* the client with callers that may be cancelled
CancelSpec == Init /\ [][CancelNext]_vars

\* ------------------------------------------------- the request layer
\* the routes of main.py.  available is what wolfram_executor.is_available()
\* answers; a body that is not the route's request model is rejected (422)
Route(req, available) ==
  LET answer(s, d, o) == [status |-> s, delivered |-> d, operation |-> o]
      member(m) == req.body.kind = "object" /\ req.body.member = m
  IN  CASE req.path = "/health" ->
             answer(IF req.method = "GET" THEN 200 ELSE 405, NoSource, None)
        [] req.path = "/execute" ->
             IF req.method # "POST" THEN answer(405, NoSource, None)
             ELSE IF ~member("code") THEN answer(422, NoSource, None)
             ELSE IF ~available THEN answer(503, NoSource, None)
             ELSE answer(200, req.body.source, "execute_code")
        [] req.path = "/evaluate" ->
             IF req.method # "POST" THEN answer(405, NoSource, None)
             ELSE IF ~member("expression") THEN answer(422, NoSource, None)
             ELSE IF ~available THEN answer(503, NoSource, None)
             ELSE answer(200, req.body.source, "evaluate_expression")
        [] OTHER -> answer(404, NoSource, None)

\* middleware.py lines 129-139: the source text validate_code_middleware
\* passes to the validator, NoSource when it validates nothing (other path or
\* method, empty body, json.loads or data.get raising)
Screened(req) ==
  IF req.path = "/execute-wolfram" /\ req.method = "POST"
       /\ req.body.kind = "object"
  THEN IF req.body.member = "code" THEN req.body.source ELSE EmptySource
  ELSE NoSource

\* validate_code_middleware(request, call_next) with the routes as call_next
ValidateCodeMiddleware(req, available) ==
  IF Screened(req) # NoSource /\ ~validate_code(Screened(req)).is_safe
  THEN [status |-> 400, delivered |-> NoSource, operation |-> None]
  ELSE Route(req, available)

\* a request to the application main.py builds: CORSMiddleware, then the
\* routes
AppRequest(req, available) ==
  /\ web' = [req |-> req, via |-> "app", screened |-> NoSource]
              @@ Route(req, available)
  /\ UNCHANGED <<clientVars, rlVars>>

\* a request handled by validate_code_middleware in front of the routes
MiddlewareRequest(req, available) ==
  /\ web' = [req |-> req, via |-> "validate_code_middleware",
             screened |-> Screened(req)]
              @@ ValidateCodeMiddleware(req, available)
  /\ UNCHANGED <<clientVars, rlVars>>

ReqNext ==
  \/ \E req \in Requests : \E available \in BOOLEAN : AppRequest(req, available)
  \/ \E req \in Requests : \E available \in BOOLEAN :
       MiddlewareRequest(req, available)

ReqSpec == Init /\ [][ReqNext]_vars

\* ------------------------------------------------ RateLimiter.is_allowed
\* how the clock moves between two calls
Ticks == {30, 31}

\* lines 119-120: popleft while the oldest entry is older than minute_ago
RECURSIVE Cleaned(_, _)
Cleaned(log, minute_ago) ==
  IF log # <<>> /\ Head(log) < minute_ago
  THEN Cleaned(Tail(log), minute_ago)
  ELSE log

\* line 123: current_time - self.last_reset[client_ip] > 60
ResetDueAtOnce(c) == now > last_reset[c]
ResetDue(c) == now - last_reset[c] > Window

\* lines 124 and 128: the burst count the burst limit is checked against
BurstNow(c) == IF ResetDue(c) THEN 0 ELSE burst_counts[c]

\* lines 128-139: what is_allowed(c) answers in the current state
\* line 128
BurstLimitReached(n) == n >= burst_size

\* line 132
RateLimitReachedLate(n) == n > requests_per_minute
RateLimitReached(n) == n >= requests_per_minute

Verdict(c) ==
  IF BurstLimitReached(BurstNow(c))
  THEN [client |-> c, allowed |-> FALSE, reason |-> "Burst limit exceeded"]
  ELSE IF RateLimitReached(Len(Cleaned(requests[c], now - Window)))
  THEN [client |-> c, allowed |-> FALSE, reason |-> "Rate limit exceeded"]
  ELSE [client |-> c, allowed |-> TRUE, reason |-> "OK"]

\* line 137: self.burst_counts[client_ip] += 1
CountedForAll(counts, c) == [k \in DOMAIN counts |-> counts[k] + 1]
Counted(counts, c) == [counts EXCEPT ![c] = @ + 1]

\* lines 115-139
IsAllowed(c) ==
  /\ verdict' = Verdict(c)
  /\ last_reset' = [last_reset EXCEPT ![c] = IF ResetDue(c) THEN now ELSE @]
  /\ IF Verdict(c).allowed
     THEN /\ requests' = [requests EXCEPT ![c] =
                            Append(Cleaned(@, now - Window), now)]
          /\ burst_counts' = Counted([burst_counts EXCEPT ![c] = BurstNow(c)], c)
          /\ granted' = [granted EXCEPT ![c] = Append(@, now)]
     ELSE /\ requests' = [requests EXCEPT ![c] = Cleaned(@, now - Window)]
          /\ burst_counts' = [burst_counts EXCEPT ![c] = BurstNow(c)]
          /\ UNCHANGED granted
  /\ UNCHANGED <<clientVars, web, now, requests_per_minute, burst_size>>

\* the times of log that lie within the 60 seconds up to time at
Recent(log, at) == SelectSeq(log, LAMBDA x : x >= at - Window)

\* line 115: time.time() has moved on
Tick(d) ==
  /\ now + d <= StartTime + MaxElapsed
  /\ now' = now + d
  /\ granted' = [c \in Clients |-> Recent(granted[c], now + d)]
  /\ UNCHANGED <<clientVars, web, requests, burst_counts, last_reset, verdict,
                 requests_per_minute, burst_size>>

RlNext ==
  \/ \E c \in Clients : IsAllowed(c)
  \/ \E d \in Ticks : Tick(d)

RlSpec == Init /\ [][RlNext]_vars

\* the RateLimiter class, whatever limits it was constructed with
RlAnySpec == AnyLimiterInit /\ [][RlNext]_vars

TypeOK ==
  /\ session \in 0..MaxHandles
  /\ initialized \in BOOLEAN
  /\ lock \in Tasks \cup {0}
  /\ cur \in Tasks \cup {0}
  /\ calls \in 0..MaxCalls
  /\ nextId \in 0..MaxHandles
  /\ live \subseteq 1..MaxHandles

\* ------------------------------------------------------------ properties
Done(t) == frame[t].pc = "done"
ExecuteDone(t) == Done(t) /\ frame[t].op = "execute"

\* C1: at every instant at most one evaluate or terminate invocation is
\* running on the session handle, whatever calls are in progress
C1_NoOverlappingKernelCalls == Cardinality(running) <= 1

\* C1 witness: a kernel call runs while another task's call is queued
C1_Witness ==
  \E j \in running : queue # <<>> /\ Head(queue).task # j.task

\* the health check of a READY session raised during an execute call
HealthFailed(t) ==
  /\ frame[t].op = "execute"
  /\ frame[t].pc = "aw_hprobe"
  /\ fut[t].st = "raised"

\* a later failure excuses the call from succeeding
FailedLater(t) ==
  \/ frame[t].failures > 1
  \/ hungEval[t]
  \/ frame[t].cause # None
  \/ frame[t].sentinel
  \/ (Done(t) /\ ret[t] = TimeoutOutcome)

\* C2: when the liveness probe of a READY session raises, the execute call
\* recreates the session and returns success with the value of the
\* requested evaluation, unless creation or the evaluation then fails
C2_RecreatesAndSucceeds ==
  \A t \in Tasks :
    HealthFailed(t) ~>
      \/ Done(t) /\ ret[t] = SuccessOutcome(KernelValue(frame[t].code))
      \/ FailedLater(t)

\* C3: no _ensure_session call ever blocks on the guard's lock while it
\* holds that lock itself
C3_NeverWaitsOnOwnLock ==
  \A t \in Tasks :
    ~(lock = t /\ \E i \in 1..Len(waiters) : waiters[i] = t)

\* C4: when the requested evaluation never returns, the call still returns
\* the timed-out failure once its timer fires
C4_TimeoutDespiteHang ==
  \A t \in Tasks :
    (frame[t].pc = "aw_eval" /\ hungEval[t]) ~>
      (ExecuteDone(t) /\ ret[t].success = FALSE /\ ret[t].result = None
         /\ ret[t].error = "Execution timed out after T seconds")

\* C5: when every creation attempt failed, _ensure_session returns false
\* with no handle reference set and the session not marked initialized
C5_ExhaustedLeavesNoHandle ==
  \A t \in Tasks :
    (frame[t].pc = "ens_ret" /\ ~frame[t].ensRet) =>
      (session = 0 /\ ~initialized)

\* C5 witness: _ensure_session returns false after max_retries failures
C5_Witness ==
  \E t \in Tasks :
    /\ frame[t].pc = "ens_ret" /\ ~frame[t].ensRet
    /\ frame[t].attempt = MaxRetries - 1 /\ frame[t].failures = MaxRetries
    /\ nextId > 0

C7_NeverRaises ==
  \A t \in Tasks :
    ExecuteDone(t) =>
      /\ ret[t].tag = "tuple"
      /\ frame[t].cause # None =>
           /\ ret[t].success = FALSE
           /\ ret[t].error = Str(frame[t].cause)

\* C7 witness: a call completed after its evaluation raised
C7_Witness ==
  \E t \in Tasks : ExecuteDone(t) /\ frame[t].cause = "WolframKernelException"

\* C8: in every outcome, success implies no error, and failure implies no
\* result and an error
C8_OutcomeInvariant ==
  \A t \in Tasks :
    (ExecuteDone(t) /\ ret[t].tag = "tuple") =>
      /\ ret[t].success => ret[t].error = None
      /\ ~ret[t].success => (ret[t].result = None /\ ret[t].error # None)

\* C8 witness: one call succeeded and another failed
C8_Witness ==
  \E t, u \in Tasks :
    /\ ExecuteDone(t) /\ ret[t].tag = "tuple" /\ ret[t].success
    /\ ExecuteDone(u) /\ ret[u].tag = "tuple" /\ ~ret[u].success

\* C9: when the kernel returns the failure symbol instead of raising, the
\* outcome is success=false with error "evaluation failed"
C9_SentinelIsFailure ==
  \A t \in Tasks :
    (ExecuteDone(t) /\ frame[t].sentinel) =>
      (ret[t].success = FALSE /\ ret[t].error = "evaluation failed")

\* C10: at most one handle is constructed and not yet terminated, and at
\* most one handle is READY
C10_AtMostOneHandle ==
  /\ Cardinality(live) <= 1
  /\ Cardinality({h \in live : session = h /\ initialized}) <= 1

\* no kernel call has raised or hung, and the executor was never shut down
Healthy == ~faulted /\ ~shutdown

\* the value evaluate handed back to the call of task t
Returned(t) ==
  IF frame[t].sentinel THEN FailedSentinel ELSE KernelValue(frame[t].code)

\* the call of task t took the creation path of _ensure_session
Created(t) == frame[t].trace # <<>> /\ Head(frame[t].trace) = "create"

\* C11: with a healthy kernel, a call that finds no session and whose
\* evaluation answers within its timeout requests, in this order, exactly
\* one construction, one probe, one warm-up and then its own evaluation, and
\* returns success=true with the value evaluate returned and no error
C11_FreshCallSequence ==
  \A t \in Tasks :
    (ExecuteDone(t) /\ Healthy /\ Created(t) /\ ret[t] # TimeoutOutcome) =>
      /\ frame[t].trace = <<"create", "probe", "warmup", "eval">>
      /\ ret[t] = SuccessOutcome(Returned(t))

\* C11 witness: a call on a healthy kernel created the session and returned
\* the kernel's value
C11_Witness ==
  \E t \in Tasks :
    /\ ExecuteDone(t) /\ Healthy /\ Created(t)
    /\ ret[t] = SuccessOutcome(KernelValue(frame[t].code))

\* the work items in the executor, queued or running
Submitted == {queue[i] : i \in DOMAIN queue} \cup running

\* the kernel interactions the call of task t has requested
Requested(t) == {frame[t].trace[i] : i \in DOMAIN frame[t].trace}

\* C12: when _ensure_session returned false, execute_wolfram_code returns
\* success=false with the session-unavailable error and elapsed time 0, and
\* the requested code is never submitted to the kernel
C12_NoSessionNoEvaluation ==
  \A t \in Tasks :
    /\ (ExecuteDone(t) /\ ~frame[t].ensRet) =>
         /\ ret[t] = SessionFailedOutcome
         /\ ret[t].elapsed = "zero"
         /\ "eval" \notin Requested(t)
    /\ (frame[t].op = "execute" /\ ~frame[t].ensRet) =>
         ~\E j \in Submitted : Awaited(j, t) /\ j.kind = "eval"

\* C12 witness: a call returned after _ensure_session gave up
C12_Witness ==
  \E t \in Tasks :
    /\ ExecuteDone(t) /\ ~frame[t].ensRet
    /\ frame[t].failures >= MaxRetries
    /\ ret[t].success = FALSE

\* close() has not been called
NoClose == ~shutdown /\ \A t \in Tasks : frame[t].op # "close"

\* C13: while the kernel stays healthy and the client is not closed, at most
\* one handle is ever constructed and it is never terminated; every finished
\* execute_wolfram_code call either created that handle or ran exactly one
\* probe on the existing READY handle before its evaluation, constructing and
\* terminating nothing
C13_OneHandleReused ==
  (~faulted /\ NoClose) =>
    /\ nextId <= 1
    /\ live = 1..nextId
    /\ \A t \in Tasks :
         ExecuteDone(t) =>
           \/ frame[t].trace = <<"create", "probe", "warmup", "eval">>
           \/ /\ frame[t].trace = <<"probe", "eval">>
              /\ nextId = 1

\* C13 witness: a call reused the READY handle another call had created
C13_Witness ==
  /\ ~faulted /\ NoClose
  /\ \E t, u \in Tasks :
       /\ ExecuteDone(t) /\ frame[t].trace = <<"probe", "eval">>
       /\ ExecuteDone(u) /\ Created(u)
       /\ ret[t].success /\ ret[u].success
       /\ session = 1 /\ initialized

\* C14: when the kernel binding raises during the evaluation of an
\* execute_wolfram_code call, the call returns a failure outcome carrying the
\* error text and leaves the session no longer READY
C14_RaiseMarksDead ==
  [][\A t \in Tasks :
       (/\ frame[t].pc = "aw_eval"
        /\ frame'[t].pc = "done"
        /\ frame'[t].cause = "WolframKernelException") =>
         /\ ret'[t] = ExecuteExcept("WolframKernelException")
         /\ ~(session' # 0 /\ initialized')]_vars

\* a close() call has returned
Closed == shutdown \/ \E t \in Tasks : frame[t].op = "close" /\ Done(t)

\* C15: once close has returned, no handle is READY again, whatever
\* execute_wolfram_code, is_available or get_kernel_info calls follow
C15_ClosedIsTerminal == Closed => ~(session # 0 /\ initialized)

\* C15 witness: a call made after close returned has finished its attempts
\* and no handle is READY
C15_Witness ==
  \E t, u \in Tasks :
    /\ frame[t].op = "close" /\ Done(t)
    /\ frame[u].op \in {"execute", "is_available", "get_kernel_info"} /\ Done(u)
    /\ frame[u].callNo > frame[t].callNo
    /\ frame[u].failures >= MaxRetries
    /\ ~(session # 0 /\ initialized)

\* a step of task t's get_session_info call
InfoStep(t) ==
  /\ frame[t].op = "get_session_info"
  /\ frame[t].pc \in {"info", "aw_iver"}
  /\ frame'[t] # frame[t]

\* C16: get_session_info reports session_active = true exactly when a handle
\* reference is set and marked initialized, reports a session age exactly
\* when the session is initialized, and none of its steps changes the handle
\* reference, the initialized flag or the last-activity stamp
C16_SessionInfoReadsOnly ==
  [][\A t \in Tasks :
       InfoStep(t) =>
         /\ UNCHANGED sessVars
         /\ frame[t].pc = "info" =>
              /\ ret'[t].session_active = (session # 0 /\ initialized)
              /\ ret'[t].has_age = initialized
              /\ ret'[t].last_activity = lastActivity]_vars

\* C16 witness: get_session_info returned on a READY session and on a client
\* with no READY session
C16_Witness ==
  \E t, u \in Tasks :
    /\ frame[t].op = "get_session_info" /\ Done(t)
    /\ ret[t].session_active /\ ret[t].has_age /\ ret[t].version = "version"
    /\ frame[u].op = "get_session_info" /\ Done(u)
    /\ ~ret[u].session_active /\ ~ret[u].has_age

\* task t is inside "async with self._session_lock" of _ensure_session or
\* close; a task that re-entered _ensure_session from line 106 is still
\* inside the outer block
InGuard(t) ==
  \/ frame[t].pc \in {"ens_check", "attempt", "aw_probe", "aw_warm", "handler",
                      "aw_term", "after_handler", "backoff", "aw_hprobe",
                      "ens_ret", "close_check", "aw_cterm", "close_exit"}
  \/ frame[t].depth > 0 /\ frame[t].pc \in {"ens_enter", "ens_lockwait"}

\* C19: no two callers are inside the guard's critical section at once:
\* whoever is between the start and the end of a creation, health-check or
\* teardown sequence holds the lock, so no other caller is inside one
C19_GuardMutualExclusion ==
  /\ \A t \in Tasks : InGuard(t) => lock = t
  /\ \A t, u \in Tasks : (InGuard(t) /\ InGuard(u)) => t = u

\* C19 witness: one caller waits for its probe inside the critical section
\* while another caller waits for the lock
C19_Witness ==
  \E t, u \in Tasks :
    /\ t # u
    /\ frame[t].pc \in {"aw_probe", "aw_hprobe", "aw_cterm"}
    /\ frame[u].pc \in {"ens_lockwait", "close_lockwait"}
    /\ frame[u].depth = 0
    /\ lock = t

\* _ensure_session of task t is about to return (lines 78, 93, 101)
Returning(t) == frame[t].pc = "ens_ret" /\ frame[t].depth = 0

\* C20: whenever _ensure_session returns true, the client holds a handle
\* that is marked READY and on which a probe evaluation succeeded during
\* this call, and on which the warm-up also succeeded if this call created
\* it; it returns false only after max_retries creation attempts have all
\* failed
C20_EnsureSessionVerdict ==
  \A t \in Tasks :
    Returning(t) =>
      IF frame[t].ensRet
      THEN /\ session # 0 /\ initialized
           /\ session \in live
           /\ frame[t].probed = session
           /\ "create" \in Requested(t) => frame[t].warmed = session
      ELSE /\ frame[t].attempt = MaxRetries - 1
           /\ frame[t].failures = MaxRetries
           /\ ~(session # 0 /\ initialized)

\* C20 witness: one call is handed a freshly created and warmed-up handle
\* after an earlier attempt failed
C20_Witness ==
  \E t \in Tasks :
    /\ Returning(t) /\ frame[t].ensRet
    /\ frame[t].failures > 0
    /\ frame[t].warmed = session /\ frame[t].probed = session

\* C17: every source text handed to the engine's execute operation by the
\* request-handling layer was first passed to validate_code and judged safe
C17_ValidatedBeforeExecute ==
  (web.delivered # NoSource /\ web.operation = "execute_code") =>
    /\ web.screened = web.delivered
    /\ validate_code(web.delivered).is_safe

\* C18: the throttle is independent per caller identity: an is_allowed(a)
\* call leaves the request log, the burst count and the last-reset time of
\* every other identity b unchanged, and does not change what an
\* is_allowed(b) call answers
C18_ThrottlePerCaller ==
  [][\A a, b \in Clients :
       (IsAllowed(a) /\ a # b) =>
         /\ requests'[b] = requests[b]
         /\ burst_counts'[b] = burst_counts[b]
         /\ last_reset'[b] = last_reset[b]
         /\ Verdict(b)' = Verdict(b)]_vars

\* C18 witness: one identity has just been refused for its burst while the
\* other, which has made requests in the same minute, would still be allowed
C18_Witness ==
  \E a, b \in Clients :
    /\ a # b
    /\ verdict.client = a /\ ~verdict.allowed
    /\ burst_counts[a] = burst_size
    /\ requests[b] # <<>> /\ now - last_reset[b] <= Window
    /\ Verdict(b).allowed

\* terminate was invoked on handle h, or a work item that will invoke it is
\* in the executor
TerminateRequested(h) ==
  h \notin live \/ \E j \in Submitted : j.kind = "terminate" /\ j.h = h

\* C21: whenever _ensure_session discards a handle because its health check
\* failed, terminate has been invoked on that handle by the time the
\* reference is cleared
C21_HealthFailureTerminates ==
  [][\A t \in Tasks :
       (/\ frame[t].pc \in {"ens_check", "aw_hprobe"}
        /\ frame'[t].failures > frame[t].failures
        /\ session # 0 /\ session' = 0) =>
         \A h \in 1..MaxHandles : h = session => TerminateRequested(h)']_vars

\* the creation loop of task t has finished handling a failed attempt: it
\* is about to back off, to start the next attempt, or to return false
AttemptCleanedUp(t) ==
  \/ frame[t].pc \in {"after_handler", "backoff"}
  \/ frame[t].pc = "attempt" /\ frame[t].attempt > 0
  \/ frame[t].pc = "ens_ret" /\ ~frame[t].ensRet

\* C22: after a failed creation attempt the handle reference is cleared
\* before the next attempt starts and before _ensure_session returns false,
\* and if the attempt had set a handle, terminate was attempted on it first:
\* it ran on the worker (returning or raising), or the closed executor
\* refused it, and either failure was swallowed
C22_FailedAttemptCleanedUp ==
  [][\A t \in Tasks :
       /\ AttemptCleanedUp(t)' => session' = 0
       /\ (frame[t].pc \in {"handler", "aw_term"}
            /\ frame'[t].pc = "after_handler") =>
           \A h \in 1..MaxHandles :
             h = session => (h \notin live' \/ shutdown)]_vars

\* C22 witness: a second attempt is about to start after the first one's
\* handle failed its probe and was terminated
C22_Witness ==
  \E t \in Tasks :
    /\ frame[t].pc = "attempt" /\ frame[t].attempt = 1
    /\ frame[t].exc = "WolframKernelException"
    /\ nextId = 1 /\ live = {} /\ session = 0
    /\ ~shutdown

\* the event loop thread is executing the coroutine of some task
OnEventLoop == cur # 0

\* the event loop thread sits in self._executor.shutdown(wait=True) while
\* the worker still has work
LoopWaitsForWorker ==
  \E t \in Tasks :
    frame[t].pc = "close_shut" /\ (queue # <<>> \/ running # {})

\* C23: no session construction runs on the caller's own scheduling context
\* (the event loop thread), and the event loop thread never waits for the
\* worker to finish
C23_BlockingOnlyOnWorker ==
  [][/\ nextId' > nextId => ~OnEventLoop
     /\ ~LoopWaitsForWorker']_vars

\* the step in which the execute_wolfram_code call of task t times out
TimesOut(t) ==
  /\ frame[t].pc = "aw_eval"
  /\ frame'[t].pc = "done"
  /\ ret'[t] = TimeoutOutcome

\* C24: when an execute_wolfram_code call times out only the caller's wait
\* is aborted: every kernel call running on the worker keeps running,
\* terminate is not invoked or submitted, and the handle reference, the
\* READY flag and the last-activity stamp are unchanged
C24_TimeoutAbortsOnlyTheWait ==
  [][\A t \in Tasks :
       TimesOut(t) =>
         /\ UNCHANGED sessVars
         /\ UNCHANGED live
         /\ \A j \in running :
              \E k \in running' :
                k = [j EXCEPT !.abandoned = k.abandoned] /\ (j.abandoned => k.abandoned)
         /\ Cardinality(running') = Cardinality(running)
         /\ \A k \in Submitted' : k.kind = "terminate" => k \in Submitted]_vars

\* C24 witness: a call has returned the timeout outcome while the kernel
\* call it gave up on is still running on the worker and the session is
\* still READY
C24_Witness ==
  \E t \in Tasks :
    /\ ExecuteDone(t) /\ ret[t] = TimeoutOutcome
    /\ \E j \in running : j.task = t /\ j.kind = "eval" /\ j.abandoned
    /\ session # 0 /\ initialized

\* the evaluation requested by the current call of task t is in the
\* executor, queued or running
EvaluationSubmitted(t) ==
  \E j \in Submitted : Awaited(j, t) /\ j.kind = "eval"

\* C25: no caller holds the session lock while the evaluation its call
\* requested is submitted to or running on the worker
C25_LockNotHeldDuringEvaluation ==
  \A t \in Tasks :
    (EvaluationSubmitted(t) \/ frame[t].pc = "aw_eval") => lock # t

\* C25 witness: one caller's evaluation runs on the worker while another
\* caller holds the lock inside _ensure_session
C25_Witness ==
  \E t, u \in Tasks :
    /\ t # u
    /\ \E j \in running : Awaited(j, t) /\ j.kind = "eval"
    /\ lock = u /\ frame[u].pc \in {"ens_check", "aw_hprobe", "ens_ret"}

\* the health probe of caller u waits in the executor's queue while the
\* worker runs the evaluation another caller requested
HealthCheckBehindEvaluation ==
  \E t, u \in Tasks :
    /\ t # u
    /\ frame[u].pc = "aw_hprobe"
    /\ \E i \in DOMAIN queue : queue[i].task = u /\ queue[i].kind = "probe"
    /\ \E j \in running : j.task = t /\ j.kind = "eval"

\* C26: a health check is not serialized behind a slow evaluation: the
\* probe of a caller's _ensure_session on the READY handle never has to wait
\* for another caller's evaluation that is running on the worker
C26_HealthCheckNotBehindEvaluation == ~HealthCheckBehindEvaluation

\* the sum of a sequence of delays
RECURSIVE Sum(_)
Sum(s) == IF s = <<>> THEN 0 ELSE Head(s) + Sum(Tail(s))

\* C27: in the creation loop the backoff slept after failed attempt k
\* (k = 1..max_retries-1) is 2^(k-1) time units and no sleep follows the
\* final failed attempt: a call has slept once per failed attempt that was
\* not the last, and with max_retries = 3 both a success after two failures
\* and a return of false after three failures have slept 1 + 2 units
C27_ExponentialBackoff ==
  \A t \in Tasks :
    LET f == frame[t]
    IN  /\ \A k \in DOMAIN f.slept : f.slept[k] = 2 ^ (k - 1)
        /\ Len(f.slept) = IF f.pc = "backoff" THEN f.attempt + 1 ELSE f.attempt
        /\ Len(f.slept) <= MaxRetries - 1
        /\ (f.pc = "ens_ret" /\ ~f.ensRet) =>
             (f.failures = MaxRetries /\ Sum(f.slept) = 1 + 2)
        /\ (f.pc = "ens_ret" /\ f.ensRet /\ f.failures = 2) =>
             Sum(f.slept) = 1 + 2

\* C27 witness: one call returned false after three failed attempts and
\* another succeeded after two, each having slept 1 and then 2 units
C27_Witness ==
  \E t \in Tasks :
    /\ frame[t].pc = "ens_ret" /\ frame[t].ensRet
    /\ frame[t].failures = 2
    /\ frame[t].slept = <<1, 2>>

\* the terminate work items in the executor for handle h
TerminateItems(h) ==
  Cardinality({i \in DOMAIN queue : queue[i].kind = "terminate" /\ queue[i].h = h})
    + Cardinality({j \in running : j.kind = "terminate" /\ j.h = h})

\* C28: close never propagates a failure of terminate: whether terminate
\* returned or raised, after the guarded block of close the handle reference
\* is cleared and the session is marked not initialized, close returns
\* normally, and terminate is invoked at most once on a handle (it is only
\* ever submitted for a handle it has not run on, one item at a time)
C28_CloseSwallowsTerminateFailure ==
  /\ \A t \in Tasks :
       frame[t].op = "close" =>
         /\ frame[t].pc \in {"close_exit", "close_shut"} =>
              (session = 0 /\ ~initialized)
         /\ Done(t) => ret[t] = [tag |-> "closed"]
  /\ \A h \in 1..MaxHandles :
       /\ TerminateItems(h) <= 1
       /\ TerminateItems(h) = 1 => h \in live

\* C28 witness: terminate raised inside close and close has left its
\* guarded block with the reference cleared
C28_Witness ==
  \E t \in Tasks :
    /\ frame[t].op = "close" /\ frame[t].pc = "close_exit"
    /\ frame[t].exc = "WolframKernelException"
    /\ session = 0 /\ ~initialized /\ nextId > 0

\* the evaluations the worker starts in this step
StartedEvaluations ==
  {j \in running' \ running : j.kind = "eval" /\ ~j.abandoned /\ ~j.hung}

\* C29: the evaluation submitted by execute_wolfram_code runs against the
\* READY handle its _ensure_session verified: when the worker starts it, the
\* handle reference is still that handle and still READY, whatever close
\* calls and other callers' health checks are interleaved
C29_EvaluationOnVerifiedHandle ==
  [][\A j \in StartedEvaluations :
       /\ j.h # 0
       /\ j.h = frame[j.task].probed
       /\ session = j.h /\ initialized]_vars

\* a kernel call whose caller timed out is still occupying the worker and
\* never completes
AbandonedHang(t) ==
  \E j \in running : j.task = t /\ j.kind = "eval" /\ j.hung /\ j.abandoned

\* the call of task u was made after the call of task t returned the
\* timed-out failure, and has not taken a step yet
CalledAfterTimeout(t, u) ==
  /\ ExecuteDone(t) /\ ret[t] = TimeoutOutcome
  /\ frame[u].op = "execute" /\ frame[u].pc = EntryPc("execute")
  /\ frame[u].depth = 0
  /\ frame[u].callNo > frame[t].callNo

\* C30: after an execute_wolfram_code call returned the timed-out failure,
\* every later execute_wolfram_code call eventually returns an outcome, even
\* when the abandoned kernel call never completes
C30_LaterCallsReturnAfterTimeout ==
  \A t \in Tasks : \A u \in Tasks \ {t} :
    (CalledAfterTimeout(t, u) /\ AbandonedHang(t)) ~> Done(u)

\* close() has been called by task t and has not returned
CloseCalled(t) == frame[t].op = "close" /\ frame[t].pc \notin {"idle", "done"}

\* close() of task t returned: handle reference cleared, executor shut down
CloseCompleted(t) ==
  /\ frame[t].op = "close" /\ Done(t)
  /\ session = 0 /\ ~initialized /\ shutdown

\* C31: a close call eventually completes, with the handle torn down and the
\* executor shut down, also while an evaluation abandoned by an earlier
\* timeout is still running on the worker
C31_CloseCompletes ==
  \A t \in Tasks : \A u \in Tasks \ {t} :
    (CloseCalled(t) /\ AbandonedHang(u)) ~> CloseCompleted(t)

\* this step cancels the call of task t inside the creation path
CancelledInCreation(t) ==
  /\ SuspendedInCreation(t)
  /\ frame'[t].pc = "done" /\ ret'[t] = CancelledRet

\* this step makes self._session refer to a newly constructed handle while
\* it still referred to handle h
Overwrites(h) == session = h /\ session' # 0 /\ session' # h

\* C32: when a call is cancelled while suspended in the creation path of
\* _ensure_session, the lock is released, and no handle reference is ever
\* overwritten by a later construction unless terminate was requested on the
\* handle it referred to
C32_CancelReleasesLockAndHandle ==
  [][/\ \A t \in Tasks : CancelledInCreation(t) => lock' # t
     /\ \A h \in 1..MaxHandles : Overwrites(h) => TerminateRequested(h)]_vars

\* the number of requests of client c that were allowed at a time within the
\* 60 seconds that start at time s
AllowedWithin(c, s) ==
  Cardinality({i \in 1..Len(granted[c]) :
                 s <= granted[c][i] /\ granted[c][i] <= s + Window})

\* the number of requests of client c allowed since its last burst reset
AllowedSinceReset(c) ==
  Cardinality({i \in 1..Len(granted[c]) : granted[c][i] >= last_reset[c]})

\* this is_allowed(c) call answered with a denial
Denied(c) == IsAllowed(c) /\ ~verdict'.allowed

\* C33: for every client, after every is_allowed call, the requests allowed
\* within the 60 seconds up to the call (hence within any 60 seconds) number
\* at most requests_per_minute and the requests allowed since the last burst
\* reset number at most burst_size; a denied request is not appended to the
\* request log and not counted in the burst count
C33_LimitsRespected ==
  [][\A c \in Clients :
       IsAllowed(c) =>
         /\ \A s \in (now - Window)..now :
              AllowedWithin(c, s)' <= requests_per_minute
         /\ AllowedSinceReset(c)' <= burst_size
         /\ Denied(c) =>
              /\ Len(requests'[c]) <= Len(requests[c])
              /\ \A i \in 1..Len(requests'[c]) :
                   requests'[c][i] = requests[c][i + Len(requests[c]) - Len(requests'[c])]
              /\ burst_counts'[c] <= burst_counts[c]]_vars

\* C33 witness: a client whose log is full for the minute, with burst to
\* spare, has just been refused for the rate
C33_Witness ==
  \E c \in Clients :
    /\ verdict = [client |-> c, allowed |-> FALSE, reason |-> "Rate limit exceeded"]
    /\ Len(requests[c]) = requests_per_minute
    /\ burst_counts[c] < burst_size
    /\ AllowedWithin(c, now - Window) = requests_per_minute

\* the last is_allowed call refused the request
Refused == verdict.client # None /\ ~verdict.allowed

\* C34: with the limiter configured at line 183 (30 requests per minute,
\* bursts of 5), no is_allowed call answers with the rate-limit denial: no
\* request log ever holds more than 2 * burst_size entries, and every denial
\* is a burst-limit denial
C34_OnlyBurstDenials ==
  /\ verdict.reason # "Rate limit exceeded"
  /\ \A c \in Clients : Len(requests[c]) <= 2 * burst_size
  /\ Refused => verdict.reason = "Burst limit exceeded"

\* C34 witness: a client whose log holds the requests of two bursts has just
\* been refused, for the burst
C34_Witness ==
  \E c \in Clients :
    /\ Refused /\ verdict.client = c
    /\ burst_counts[c] = burst_size
    /\ Len(requests[c]) >= 2 * burst_size - 1

====
